---- MODULE Spec2Model ----
(***************************************************************************)
(* KCC Query Assistant: the Streamlit script (src/app.py) and its helpers  *)
(* (src/utils.py).                                                         *)
(*                                                                         *)
(* Strings are sequences of tokens: an f-string is the sequence of its     *)
(* literal pieces and substituted values, str.join interleaves a separator *)
(* token, str.startswith looks at the first token.  Distances and the      *)
(* threshold are in tenths (1.0 is 10).                                    *)
(***************************************************************************)
EXTENDS Integers, Sequences, FiniteSets, TLC

VARIABLES
    \* ---- preprocess_kcc
    ppc,            \* "ready" | "done"
    csv,            \* the rows of KCC-DataSet.csv, in file order
    docsOut,        \* what json.dump wrote to processed_docs.json
    \* ---- the persisted index and the session that builds it
    indexFile,      \* faiss_index.pkl: [exists, bytes]
    bpc,            \* "idle" | "writing"
    bbuf,           \* bytes pickle.dump has still to write
    buildMsg,       \* what the build button last showed
    \* ---- the session that asks a query
    qpc,            \* position of the script run in the query block
    threshold,      \* similarity_threshold (sidebar slider)
    results,        \* retrieve_context_with_score's local `results`, until app.py:90
    loaded,         \* the bytes pickle.load read in that call
    sawIndex,       \* what os.path.exists(index_path) told this run
    context,        \* app.py `context`
    score,          \* app.py `score`
    shown,          \* the widgets the run has rendered, in order
    nRetrieve,      \* calls of retrieve_context_with_score in this run
    nSynth,         \* calls of ask_gemma in this run
    nFallback,      \* calls of comprehensive_fallback_search in this run
    genOut,         \* what the ollama subprocess did in this run
    \* ---- comprehensive_fallback_search
    spc,            \* position inside comprehensive_fallback_search
    api_key,        \* TRUE when a SerpAPI key is configured
    serpResp,       \* what SerpAPI answered in this call
    ddgResp,        \* what DuckDuckGo answered in this call
    serpapi_result, \* local `serpapi_result`
    ddg_result,     \* local `ddg_result`
    live_results,   \* the value comprehensive_fallback_search returned
    calls           \* the providers called so far, in order

prepVars   == <<ppc, csv, docsOut>>
buildVars  == <<indexFile, bpc, bbuf, buildMsg>>
queryVars  == <<qpc, threshold, results, loaded, sawIndex, context, score, shown,
                nRetrieve, nSynth, nFallback, genOut>>
searchVars == <<spc, api_key, serpResp, ddgResp, serpapi_result, ddg_result,
                live_results, calls>>
vars       == <<prepVars, buildVars, queryVars, searchVars>>

-----------------------------------------------------------------------------
(* Bounds *)
MaxRows    == 3     \* rows of the csv given to preprocess_kcc
MaxCorpus  == 3     \* documents of the corpora the index is built from
MaxOrganic == 3     \* organic_results of one SerpAPI response
MaxDDG     == 4     \* results DuckDuckGo has for one query

(* Program constants *)
TopK          == 3  \* top_k
SerpCap       == 3  \* results[:3]
DDGNumResults == 3  \* num_results of fallback_search_alternative
HighBelow     == 7  \* score < 0.7
MediumBelow   == 12 \* score < 1.2

SeqsUpTo(S, n) == UNION {[1..k -> S] : k \in 0..n}

Min(a, b) == IF a <= b THEN a ELSE b

\* s[:n]
Take(s, n) == SubSeq(s, 1, Min(n, Len(s)))

\* sep.join(parts), parts a sequence of strings
RECURSIVE Join(_, _)
Join(sep, parts) ==
    IF parts = <<>> THEN <<>>
    ELSE IF Len(parts) = 1 THEN parts[1]
    ELSE parts[1] \o <<sep>> \o Join(sep, Tail(parts))

\* s.startswith(prefix)
StartsWith(s, prefix) == Len(s) >= 1 /\ s[1] = prefix

-----------------------------------------------------------------------------
(* preprocess_kcc *)

NaN == "nan"        \* pandas' missing value; str(NaN) is "nan"

QueryTexts == {NaN, "q1", "q2"}
KccAnswers == {NaN, "a1"}
Crops      == {NaN, "rice"}

RawRows == [QueryText : QueryTexts, KccAns : KccAnswers, StateName : {"MH"},
            DistrictName : {"Pune"}, Crop : Crops]

\* pd.read_csv: the frame's index is 0..n-1, in file order
ReadCsv(rows) == [i \in 1..Len(rows) |-> [idx |-> i - 1, row |-> rows[i]]]

DropNaKeep(e) == e.row.QueryText # NaN /\ e.row.KccAns # NaN

\* df.dropna(subset=['QueryText', 'KccAns']): rows kept keep their index label
DropNa(df) == SelectSeq(df, DropNaKeep)

\* the f-string of lines 23-26
DocText(row) ==
    <<"Query: ", row.QueryText, "\nAnswer: ", row.KccAns, "\nMeta: State=",
      row.StateName, ", District=", row.DistrictName, ", Crop=", row.Crop>>

\* the loop of lines 21-27 numbering the rows that are left
DocsOfMutant(df) ==
    [i \in 1..Len(df) |-> [id |-> ToString(i - 1), content |-> DocText(df[i].row)]]
\* the loop of lines 21-27
DocsOf(df) ==
    [i \in 1..Len(df) |-> [id |-> ToString(df[i].idx), content |-> DocText(df[i].row)]]

preprocess_kcc(rows) == DocsOf(DropNa(ReadCsv(rows)))

PrepInit ==
    /\ ppc = "ready"
    /\ csv \in SeqsUpTo(RawRows, MaxRows)
    /\ docsOut = <<>>

Preprocess ==
    /\ ppc = "ready"
    /\ docsOut' = preprocess_kcc(csv)
    /\ ppc' = "done"
    /\ UNCHANGED csv

-----------------------------------------------------------------------------
(* build_vector_store and the persisted index *)

\* the corpus row i of a KCC-DataSet.csv with n complete rows
CorpusRow(i) ==
    [QueryText |-> IF i % 2 = 1 THEN "q1" ELSE "q2", KccAns |-> "a1",
     StateName |-> "MH", DistrictName |-> "Pune",
     Crop |-> IF i <= 2 THEN "rice" ELSE NaN]
Corpus(n) == [i \in 1..n |-> CorpusRow(i)]

\* processed_docs.json as build_vector_store can find it: missing, or the
\* output of an earlier preprocess_kcc
DocStores ==
    {[exists |-> FALSE, docs |-> <<>>]} \cup
    {[exists |-> TRUE, docs |-> preprocess_kcc(Corpus(n))] : n \in 0..MaxCorpus}

\* [Document(page_content=d['content']) for d in docs]
Documents(docs) == [i \in 1..Len(docs) |-> docs[i].content]

\* pickle.dump(db, f): a header, the documents, the STOP opcode
Pickle(db) ==
    <<[tag |-> "PROTO", doc |-> <<>>]>> \o
    [i \in 1..Len(db) |-> [tag |-> "DOC", doc |-> db[i]]] \o
    <<[tag |-> "STOP", doc |-> <<>>]>>

\* pickle.load(f) raises (EOFError, UnpicklingError) unless the stream is whole
CanUnpickle(bytes) ==
    /\ Len(bytes) >= 2
    /\ bytes[1].tag = "PROTO"
    /\ bytes[Len(bytes)].tag = "STOP"
Unpickle(bytes) == [i \in 1..(Len(bytes) - 2) |-> bytes[i + 1].doc]

\* line 34 raises when processed_docs.json is missing, line 37 can raise on an
\* empty document list (langchain sizes the index by the first embedding);
\* faiss_index.pkl is untouched and app.py:45 shows the error
BuildFails ==
    /\ bpc = "idle"
    /\ \E store \in DocStores : ~store.exists \/ store.docs = <<>>
    /\ buildMsg' = "error"
    /\ UNCHANGED <<indexFile, bpc, bbuf>>

\* lines 33-38: the index is built in memory, then open(index_path, 'wb')
\* truncates faiss_index.pkl in place.  An empty document list is let through
\* too: whether from_documents accepts it depends on the library version.
BuildOpen ==
    /\ bpc = "idle"
    /\ \E store \in DocStores :
        /\ store.exists
        /\ bbuf' = Pickle(Documents(store.docs))
    /\ indexFile' = [exists |-> TRUE, bytes |-> <<>>]
    /\ bpc' = "writing"
    /\ buildMsg' = "none"

\* line 39: pickle.dump writes through a buffered file; any number of the
\* remaining bytes may reach the file at a time
BuildWrite ==
    /\ bpc = "writing"
    /\ bbuf # <<>>
    /\ \E n \in 1..Len(bbuf) :
        /\ indexFile' = [indexFile EXCEPT !.bytes = @ \o SubSeq(bbuf, 1, n)]
        /\ bbuf' = SubSeq(bbuf, n + 1, Len(bbuf))
    /\ UNCHANGED <<bpc, buildMsg>>

\* leaving the with block closes the file; app.py:44
BuildClose ==
    /\ bpc = "writing"
    /\ bbuf = <<>>
    /\ bpc' = "idle"
    /\ buildMsg' = "success"
    /\ UNCHANGED <<indexFile, bbuf>>

-----------------------------------------------------------------------------
(* retrieve_context_with_score *)

Thresholds == {5, 10, 20}   \* slider: 0.5 .. 2.0, default 1.0
Distances  == {4, 10, 18}

None == [none |-> TRUE, s |-> <<>>]
Str(s) == [none |-> FALSE, s |-> s]
\* `if context:`
Truthy(c) == ~c.none /\ c.s # <<>>

IsAscending(ds) == \A i \in 1..(Len(ds) - 1) : ds[i] <= ds[i + 1]

\* db.similarity_search_with_score(query, k): the k nearest documents (all of
\* them when the index holds fewer), nearest first; which documents and at
\* what distances is the embedding's business
SimilaritySearch(db, k) ==
    LET n == Min(k, Len(db))
        picks == {p \in [1..n -> 1..Len(db)] :
                    \A i, j \in 1..n : i # j => p[i] # p[j]}
        dists == {d \in [1..n -> Distances] : IsAscending(d)}
    IN {[i \in 1..n |-> [page_content |-> db[p[i]], dist |-> d[i]]] :
            p \in picks, d \in dists}

\* line 51 with >= for >
RejectsMutant(best_distance, score_threshold) == best_distance >= score_threshold
\* line 51
Rejects(best_distance, score_threshold) == best_distance > score_threshold

\* line 53
ContextOf(res) == Join("\n\n", [i \in 1..Len(res) |-> res[i].page_content])

\* lines 48-54
RetrieveResult(res, score_threshold) ==
    IF res = <<>> THEN [context |-> None, score |-> 0]
    ELSE LET best_distance == res[1].dist IN
         IF Rejects(best_distance, score_threshold)
         THEN [context |-> None, score |-> best_distance]
         ELSE [context |-> Str(ContextOf(res)), score |-> best_distance]

W(w, text, num) == [w |-> w, text |-> text, num |-> num]

\* app.py:80-85: a non-empty query starts a run of the query block
SubmitQuery ==
    /\ qpc = "idle"
    /\ \E thr \in Thresholds : threshold' = thr
    /\ qpc' = "retrieve"
    /\ UNCHANGED <<results, loaded, sawIndex, context, score, shown, nRetrieve, nSynth,
                   nFallback, genOut>>

\* lines 43-44: no faiss_index.pkl
RetrieveMissing ==
    /\ qpc = "retrieve"
    /\ ~indexFile.exists
    /\ sawIndex' = "missing"
    /\ nRetrieve' = nRetrieve + 1
    /\ context' = None
    /\ score' = 0
    /\ qpc' = "route"
    /\ UNCHANGED <<threshold, results, loaded, shown, nSynth, nFallback, genOut>>

\* line 43: the file exists
RetrieveExists ==
    /\ qpc = "retrieve"
    /\ indexFile.exists
    /\ sawIndex' = "present"
    /\ nRetrieve' = nRetrieve + 1
    /\ qpc' = "load"
    /\ UNCHANGED <<threshold, results, loaded, context, score, shown, nSynth,
                   nFallback, genOut>>

\* lines 45-46 on a stream pickle cannot load: the exception leaves
\* retrieve_context_with_score and the script (app.py:85 is in no try)
RetrieveLoadRaises ==
    /\ qpc = "load"
    /\ ~CanUnpickle(indexFile.bytes)
    /\ loaded' = indexFile.bytes
    /\ shown' = Append(shown, W("exception", <<>>, 0))
    /\ qpc' = "crashed"
    /\ UNCHANGED <<sawIndex, threshold, results, context, score, nRetrieve, nSynth,
                   nFallback, genOut>>

\* lines 45-54
RetrieveSearch ==
    /\ qpc = "load"
    /\ CanUnpickle(indexFile.bytes)
    /\ loaded' = indexFile.bytes
    /\ \E res \in SimilaritySearch(Unpickle(indexFile.bytes), TopK) :
        /\ results' = res
        /\ context' = RetrieveResult(res, threshold).context
        /\ score' = RetrieveResult(res, threshold).score
    /\ qpc' = "route"
    /\ UNCHANGED <<sawIndex, threshold, shown, nRetrieve, nSynth, nFallback, genOut>>

-----------------------------------------------------------------------------
(* ask_gemma *)

Whitespace == {" ", "\n"}

\* str.strip()
RECURSIVE LStrip(_)
LStrip(s) == IF s # <<>> /\ Head(s) \in Whitespace THEN LStrip(Tail(s)) ELSE s
RECURSIVE RStrip(_)
RStrip(s) ==
    IF s # <<>> /\ s[Len(s)] \in Whitespace THEN RStrip(SubSeq(s, 1, Len(s) - 1)) ELSE s
Strip(s) == LStrip(RStrip(s))

NoGen == [kind |-> "none", returncode |-> 0, stdout |-> <<>>]

\* subprocess.run(["ollama", ...]) without check=True: it raises only when the
\* program cannot be started; a non-zero exit status is just a field of the
\* result, which ask_gemma does not read
GenOutcomes ==
    {[kind |-> "oserror", returncode |-> 0, stdout |-> <<>>]} \cup
    [kind : {"exited"}, returncode : {0, 1},
     stdout : {<<>>, <<"\n">>, <<" ", "answer", "\n">>}]

\* line 65
ask_gemma(g) == Strip(g.stdout)

\* app.py:95
Quality(sc) ==
    IF sc < HighBelow THEN "High" ELSE IF sc < MediumBelow THEN "Medium" ELSE "Low"

\* app.py:90-96: `if context:` is true
RouteLocal ==
    /\ qpc = "route"
    /\ Truthy(context)
    /\ shown' = shown \o <<W("success_local", <<>>, 0),
                           W("relevance", <<Quality(score)>>, score)>>
    /\ results' = <<>>
    /\ loaded' = <<>>
    /\ qpc' = "synth"
    /\ UNCHANGED <<sawIndex, threshold, context, score, nRetrieve, nSynth,
                   nFallback, genOut>>

\* app.py:114-124: `if context:` is false
RouteFallback ==
    /\ qpc = "route"
    /\ ~Truthy(context)
    /\ shown' = shown \o <<W("warning_no_context", <<>>, 0),
                           W("best_match", <<>>, score),
                           W("searching", <<>>, 0)>>
    /\ results' = <<>>
    /\ loaded' = <<>>
    /\ qpc' = "fallback"
    /\ UNCHANGED <<sawIndex, threshold, context, score, nRetrieve, nSynth,
                   nFallback, genOut>>

\* app.py:100-101 raising, then 110-112
AskGemmaRaises ==
    /\ qpc = "synth"
    /\ \E g \in GenOutcomes :
        /\ g.kind = "oserror"
        /\ genOut' = g
    /\ nSynth' = nSynth + 1
    /\ shown' = shown \o <<W("error_local_model", <<>>, 0),
                           W("hint_ollama", <<>>, 0)>>
    /\ qpc' = "done"
    /\ UNCHANGED <<sawIndex, threshold, results, loaded, context, score, nRetrieve, nFallback>>

\* app.py:100-108
AskGemmaReturns ==
    /\ qpc = "synth"
    /\ \E g \in GenOutcomes :
        /\ g.kind = "exited"
        /\ genOut' = g
        /\ shown' = shown \o <<W("answer", ask_gemma(g), 0),
                               W("source_context", context.s, 0)>>
    /\ nSynth' = nSynth + 1
    /\ qpc' = "done"
    /\ UNCHANGED <<sawIndex, threshold, results, loaded, context, score, nRetrieve, nFallback>>

-----------------------------------------------------------------------------
(* fallback_live_search, fallback_search_alternative *)

ExcTexts == {"timed out"}

AnswerBoxes ==
    {[present |-> FALSE, has_snippet |-> FALSE, snippet |-> ""],
     [present |-> TRUE,  has_snippet |-> FALSE, snippet |-> ""],
     [present |-> TRUE,  has_snippet |-> TRUE,  snippet |-> ""],
     [present |-> TRUE,  has_snippet |-> TRUE,  snippet |-> "featured"]}

\* the i-th organic result; result.get("snippet", "") is "" for one without
Organic(i, has_snippet) ==
    [title |-> "t" \o ToString(i),
     snippet |-> IF has_snippet THEN "s" \o ToString(i) ELSE "",
     link |-> "u" \o ToString(i)]

NoBox == [present |-> FALSE, has_snippet |-> FALSE, snippet |-> ""]
NoResp == [kind |-> "none", text |-> "", has_organic |-> FALSE, organic |-> <<>>,
           answer_box |-> NoBox]

\* what requests.get / raise_for_status / response.json can do
SerpResponses ==
    {[NoResp EXCEPT !.kind = k, !.text = t] :
        k \in {"request_exception", "exception"}, t \in ExcTexts} \cup
    {[NoResp EXCEPT !.kind = "ok", !.answer_box = ab] : ab \in AnswerBoxes} \cup
    {[NoResp EXCEPT !.kind = "ok", !.has_organic = TRUE,
                    !.organic = [i \in 1..Len(sn) |-> Organic(i, sn[i])],
                    !.answer_box = ab] :
        sn \in SeqsUpTo(BOOLEAN, MaxOrganic), ab \in AnswerBoxes}

Item(title, snippet, source) == [title |-> title, snippet |-> snippet, source |-> source]

\* line 106: `if snippet:`
KeepsOrganic(result) == result.snippet # ""

\* lines 100-111
OrganicItems(data) ==
    IF data.has_organic
    THEN LET kept == SelectSeq(data.organic, KeepsOrganic)
         IN [i \in 1..Len(kept) |-> Item(kept[i].title, kept[i].snippet, kept[i].link)]
    ELSE <<>>

\* lines 114-121: results.insert(0, ...)
WithAnswerBox(data, res) ==
    IF data.answer_box.present /\ data.answer_box.has_snippet
    THEN <<Item("Featured Answer", data.answer_box.snippet, "ub")>> \o res
    ELSE res

\* line 126 without the slice
SerpTopMutant(res) == res
\* line 126: results[:3]
SerpTop(res) == Take(res, SerpCap)

\* lines 127-129 and 160-162
FormatResult(i, result) ==
    <<"**Result ", ToString(i), ":** ", result.title, "\n", result.snippet, "\n",
      "*Source: ", result.source, "*">>

\* lines 125-132 and 158-165
FormatResults(res) ==
    Join("\n\n---\n\n", [i \in 1..Len(res) |-> FormatResult(i, res[i])])

\* lines 72-141
fallback_live_search(key, resp) ==
    IF ~key THEN <<"Live search unavailable", ": No API key provided.">>
    ELSE IF resp.kind = "request_exception"
    THEN <<"Live search unavailable", ": Network error (", resp.text, ")">>
    ELSE IF resp.kind = "exception"
    THEN <<"Live search unavailable", ": ", resp.text>>
    ELSE LET res == WithAnswerBox(resp, OrganicItems(resp))
         IN IF res # <<>>
            THEN FormatResults(SerpTop(res))
            ELSE <<"No relevant search results found for your agricultural query.">>

\* the i-th DuckDuckGo result
DdgRaw(i, has_body) ==
    [title |-> "d" \o ToString(i),
     body |-> IF has_body THEN "b" \o ToString(i) ELSE "",
     href |-> "h" \o ToString(i)]

NoDdg == [kind |-> "none", text |-> "", raw |-> <<>>]

\* what importing duckduckgo_search and calling DDGS().text can do; raw is what
\* the engine has for the query (a result lacking a key ends in line 171, as
\* any other exception does)
DdgResponses ==
    {[NoDdg EXCEPT !.kind = k, !.text = t] :
        k \in {"import_error", "exception"}, t \in ExcTexts} \cup
    {[NoDdg EXCEPT !.kind = "ok", !.raw = [i \in 1..Len(b) |-> DdgRaw(i, b[i])]] :
        b \in SeqsUpTo(BOOLEAN, MaxDDG)}

\* line 155: ddgs.text(enhanced_query, max_results=num_results)
DdgsText(raw, max_results) == Take(raw, max_results)

\* lines 148-172
fallback_search_alternative(resp) ==
    IF resp.kind = "import_error"
    THEN <<"Alternative search unavailable", ": duckduckgo-search not installed.">>
    ELSE IF resp.kind = "exception"
    THEN <<"Alternative search unavailable", ": ", resp.text>>
    ELSE LET got == DdgsText(resp.raw, DDGNumResults)
             res == [i \in 1..Len(got) |-> Item(got[i].title, got[i].body, got[i].href)]
         IN IF res # <<>>
            THEN FormatResults(res)
            ELSE <<"No relevant search results found.">>

-----------------------------------------------------------------------------
(* comprehensive_fallback_search *)

SerpHeader  == "Live Internet Search Results:\n\n"
DdgHeader   == "Live Internet Search Results (via DuckDuckGo):\n\n"
Unavailable ==
    <<"Live search currently unavailable.\n\n",
      "Please check your internet connection or API key configuration. ",
      "You can try rephrasing your query or ask about topics covered in the local KCC dataset.">>

\* line 182, negated
SerpFailed(res) == StartsWith(res, "Live search unavailable")

\* line 187 taking every DuckDuckGo result for a success
DdgFailedMutant(res) == FALSE
\* line 187, negated
DdgFailed(res) == StartsWith(res, "Alternative search unavailable")

\* line 180: no api_key
SkipSerp ==
    /\ spc = "start"
    /\ ~api_key
    /\ spc' = "ddg"
    /\ UNCHANGED <<api_key, serpResp, ddgResp, serpapi_result, ddg_result,
                   live_results, calls>>

\* lines 180-181
CallSerp ==
    /\ spc = "start"
    /\ api_key
    /\ \E resp \in SerpResponses :
        /\ serpResp' = resp
        /\ serpapi_result' = fallback_live_search(api_key, resp)
    /\ calls' = Append(calls, "serpapi")
    /\ spc' = "serp_done"
    /\ UNCHANGED <<api_key, ddgResp, ddg_result, live_results>>

\* lines 182-183
ReturnSerp ==
    /\ spc = "serp_done"
    /\ ~SerpFailed(serpapi_result)
    /\ live_results' = <<SerpHeader>> \o serpapi_result
    /\ spc' = "returned"
    /\ UNCHANGED <<api_key, serpResp, ddgResp, serpapi_result, ddg_result, calls>>

\* line 182 false: on to DuckDuckGo
SerpFallsThrough ==
    /\ spc = "serp_done"
    /\ SerpFailed(serpapi_result)
    /\ spc' = "ddg"
    /\ UNCHANGED <<api_key, serpResp, ddgResp, serpapi_result, ddg_result,
                   live_results, calls>>

\* line 186
CallDdg ==
    /\ spc = "ddg"
    /\ \E resp \in DdgResponses :
        /\ ddgResp' = resp
        /\ ddg_result' = fallback_search_alternative(resp)
    /\ calls' = Append(calls, "duckduckgo")
    /\ spc' = "ddg_done"
    /\ UNCHANGED <<api_key, serpResp, serpapi_result, live_results>>

\* lines 187-188
ReturnDdg ==
    /\ spc = "ddg_done"
    /\ ~DdgFailed(ddg_result)
    /\ live_results' = <<DdgHeader>> \o ddg_result
    /\ spc' = "returned"
    /\ UNCHANGED <<api_key, serpResp, ddgResp, serpapi_result, ddg_result, calls>>

\* lines 191-193
ReturnUnavailable ==
    /\ spc = "ddg_done"
    /\ DdgFailed(ddg_result)
    /\ live_results' = Unavailable
    /\ spc' = "returned"
    /\ UNCHANGED <<api_key, serpResp, ddgResp, serpapi_result, ddg_result, calls>>

SearchIdle ==
    /\ spc = "idle"
    /\ api_key = FALSE
    /\ serpResp = NoResp
    /\ ddgResp = NoDdg
    /\ serpapi_result = <<>>
    /\ ddg_result = <<>>
    /\ live_results = <<>>
    /\ calls = <<>>

-----------------------------------------------------------------------------
(* app.py: the fallback branch and the end of a run *)

\* app.py:124-127: the call of comprehensive_fallback_search
FallbackCall ==
    /\ qpc = "fallback"
    /\ spc = "idle"
    /\ \E key \in BOOLEAN : api_key' = key
    /\ spc' = "start"
    /\ nFallback' = nFallback + 1
    /\ qpc' = "searching"
    /\ UNCHANGED <<sawIndex, threshold, results, loaded, context, score, shown, nRetrieve,
                   nSynth, genOut>>
    /\ UNCHANGED <<serpResp, ddgResp, serpapi_result, ddg_result, live_results, calls>>

\* app.py:129-137
FallbackShow ==
    /\ qpc = "searching"
    /\ spc = "returned"
    /\ shown' = shown \o <<W("live_results", live_results, 0),
                           W("disclaimer", <<>>, 0)>>
    /\ qpc' = "done"
    /\ UNCHANGED <<sawIndex, threshold, results, loaded, context, score, nRetrieve, nSynth,
                   nFallback, genOut>>

QueryIdle ==
    /\ qpc = "idle"
    /\ threshold = 10
    /\ results = <<>>
    /\ loaded = <<>>
    /\ sawIndex = "unchecked"
    /\ context = None
    /\ score = 0
    /\ shown = <<>>
    /\ nRetrieve = 0
    /\ nSynth = 0
    /\ nFallback = 0
    /\ genOut = NoGen

\* the script run is over; the next interaction starts a new one
NewRun ==
    /\ qpc \in {"done", "crashed"}
    /\ qpc' = "idle"
    /\ results' = <<>>
    /\ loaded' = <<>>
    /\ sawIndex' = "unchecked"
    /\ context' = None
    /\ score' = 0
    /\ shown' = <<>>
    /\ nRetrieve' = 0
    /\ nSynth' = 0
    /\ nFallback' = 0
    /\ genOut' = NoGen
    /\ spc' = "idle"
    /\ api_key' = FALSE
    /\ serpResp' = NoResp
    /\ ddgResp' = NoDdg
    /\ serpapi_result' = <<>>
    /\ ddg_result' = <<>>
    /\ live_results' = <<>>
    /\ calls' = <<>>
    /\ UNCHANGED threshold

PrepIdle ==
    /\ ppc = "unused"
    /\ csv = <<>>
    /\ docsOut = <<>>

BuildIdle ==
    /\ indexFile = [exists |-> FALSE, bytes |-> <<>>]
    /\ bpc = "idle"
    /\ bbuf = <<>>
    /\ buildMsg = "none"

Init == PrepIdle /\ BuildIdle /\ QueryIdle /\ SearchIdle

BuildStep(A) == A /\ UNCHANGED <<prepVars, queryVars, searchVars>>
QueryStep(A) == A /\ UNCHANGED <<prepVars, buildVars, searchVars>>
SearchStep(A) == A /\ UNCHANGED <<prepVars, buildVars, queryVars>>

Next ==
    \/ BuildStep(BuildFails)
    \/ BuildStep(BuildOpen)
    \/ BuildStep(BuildWrite)
    \/ BuildStep(BuildClose)
    \/ QueryStep(SubmitQuery)
    \/ QueryStep(RetrieveMissing)
    \/ QueryStep(RetrieveExists)
    \/ QueryStep(RetrieveLoadRaises)
    \/ QueryStep(RetrieveSearch)
    \/ QueryStep(RouteLocal)
    \/ QueryStep(RouteFallback)
    \/ QueryStep(AskGemmaRaises)
    \/ QueryStep(AskGemmaReturns)
    \/ FallbackCall /\ UNCHANGED <<prepVars, buildVars>>
    \/ SearchStep(SkipSerp)
    \/ SearchStep(CallSerp)
    \/ SearchStep(ReturnSerp)
    \/ SearchStep(SerpFallsThrough)
    \/ SearchStep(CallDdg)
    \/ SearchStep(ReturnDdg)
    \/ SearchStep(ReturnUnavailable)
    \/ QueryStep(FallbackShow)
    \/ NewRun /\ UNCHANGED <<prepVars, buildVars>>

Spec == Init /\ [][Next]_vars

\* comprehensive_fallback_search on its own
InitSearch ==
    /\ PrepIdle /\ BuildIdle /\ QueryIdle
    /\ spc = "start"
    /\ api_key \in BOOLEAN
    /\ serpResp = NoResp
    /\ ddgResp = NoDdg
    /\ serpapi_result = <<>>
    /\ ddg_result = <<>>
    /\ live_results = <<>>
    /\ calls = <<>>

NextSearch ==
    \/ SearchStep(SkipSerp)
    \/ SearchStep(CallSerp)
    \/ SearchStep(ReturnSerp)
    \/ SearchStep(SerpFallsThrough)
    \/ SearchStep(CallDdg)
    \/ SearchStep(ReturnDdg)
    \/ SearchStep(ReturnUnavailable)

SpecSearch == InitSearch /\ [][NextSearch]_vars

\* preprocess_kcc on its own
InitPrep == PrepInit /\ BuildIdle /\ QueryIdle /\ SearchIdle

NextPrep == Preprocess /\ UNCHANGED <<buildVars, queryVars, searchVars>>

SpecPrep == InitPrep /\ [][NextPrep]_vars

-----------------------------------------------------------------------------
(* Reading a run's result *)

\* where the items "**Result i:** ..." of a formatted text start
ItemStarts(text) == {p \in 1..Len(text) : text[p] = "**Result "}
ItemCount(text) == Cardinality(ItemStarts(text))
TitleAt(text, p) == text[p + 3]
SnippetAt(text, p) == text[p + 5]
FirstItem(text) == CHOOSE p \in ItemStarts(text) : \A q \in ItemStarts(text) : p <= q

Count(seq, Test(_)) == Cardinality({i \in 1..Len(seq) : Test(seq[i])})

HasSnippetText(r) == r.snippet # ""
HasBodyText(r) == r.body # ""
BoxUsable(ab) == ab.present /\ ab.has_snippet /\ ab.snippet # ""

\* the usable items (those with a snippet) a response holds
SerpUsable(resp) ==
    Count(resp.organic, HasSnippetText) + (IF BoxUsable(resp.answer_box) THEN 1 ELSE 0)
DdgUsable(resp) == Count(resp.raw, HasBodyText)

SerpErrored(resp) == resp.kind \in {"request_exception", "exception"}
DdgErrored(resp)  == resp.kind \in {"import_error", "exception"}

\* a provider succeeded and yielded at least one item
SerpYields == api_key /\ serpResp.kind = "ok" /\ SerpUsable(serpResp) >= 1
DdgYields  == ddgResp.kind = "ok" /\ DdgUsable(ddgResp) >= 1

Returned == spc = "returned"
FromSerp == Returned /\ Head(live_results) = SerpHeader
FromDdg  == Returned /\ Head(live_results) = DdgHeader
IsUnavailable == Returned /\ live_results = Unavailable

Configured == IF api_key THEN <<"serpapi", "duckduckgo">> ELSE <<"duckduckgo">>

-----------------------------------------------------------------------------
(* C1: the results returned by the fallback search come from the first
   provider, in priority order, that both succeeded and yielded at least one
   item; a provider that erred or yielded nothing is never the one whose
   output is returned, and once a provider has yielded no later one is
   called. *)
C1_FirstYieldingProvider ==
    Returned =>
        /\ FromSerp => SerpYields
        /\ FromDdg => DdgYields /\ ~SerpYields
        /\ SerpYields => FromSerp /\ calls = <<"serpapi">>
        /\ ~SerpYields /\ DdgYields => FromDdg

(* C6: when every configured provider has been tried and has erred, the
   fallback search returns the Unavailable outcome, whose reason is non-empty
   and holds no provider's exception text; and Unavailable is returned only
   after all configured providers have been tried. *)
C6_UnavailableAfterAll ==
    Returned =>
        /\ (calls = Configured /\ (api_key => SerpErrored(serpResp)) /\ DdgErrored(ddgResp))
            => /\ ~FromSerp /\ ~FromDdg
               /\ Len(live_results) > 0
               /\ \A i \in 1..Len(live_results) :
                    /\ live_results[i] \notin ExcTexts
                    /\ live_results[i] \notin {"Live search unavailable",
                                               "Alternative search unavailable"}
        /\ (~FromSerp /\ ~FromDdg) => calls = Configured /\ DdgErrored(ddgResp)

C6_Witness ==
    /\ Returned /\ api_key
    /\ calls = <<"serpapi", "duckduckgo">>
    /\ SerpErrored(serpResp) /\ DdgErrored(ddgResp)
    /\ IsUnavailable

(* C7: the returned result list has at most 3 items, exactly 3 when the
   provider returned more than 3 usable items, and a direct-answer item (an
   answer box carrying a snippet) is the first of them. *)
C7_CapAndDirectAnswerFirst ==
    Returned =>
        /\ ItemCount(live_results) <= 3
        /\ FromSerp /\ SerpUsable(serpResp) > 3 => ItemCount(live_results) = 3
        /\ FromDdg /\ DdgUsable(ddgResp) > 3 => ItemCount(live_results) = 3
        /\ FromSerp /\ serpResp.answer_box.present /\ serpResp.answer_box.has_snippet
            => /\ ItemStarts(live_results) # {}
               /\ TitleAt(live_results, FirstItem(live_results)) = "Featured Answer"
               /\ SnippetAt(live_results, FirstItem(live_results))
                    = serpResp.answer_box.snippet

C7_Witness ==
    /\ FromSerp
    /\ SerpUsable(serpResp) > 3
    /\ BoxUsable(serpResp.answer_box)
    /\ ItemCount(live_results) = 3
    /\ TitleAt(live_results, FirstItem(live_results)) = "Featured Answer"

(* C10: every item of the returned result list, from whichever provider and
   the direct-answer item included, has a non-empty snippet, and snippet-less
   items are dropped before the cap, so the list holds min(3, usable) items. *)
C10_EveryItemHasSnippet ==
    Returned =>
        /\ \A p \in ItemStarts(live_results) : SnippetAt(live_results, p) # ""
        /\ FromSerp => ItemCount(live_results) = Min(3, SerpUsable(serpResp))
        /\ FromDdg => ItemCount(live_results) = Min(3, DdgUsable(ddgResp))

-----------------------------------------------------------------------------
RowMissing(row) == row.QueryText = NaN \/ row.KccAns = NaN
DocsWithId(id) == {k \in 1..Len(docsOut) : docsOut[k].id = id}
RowOfDoc(k) == CHOOSE i \in 1..Len(csv) : ToString(i - 1) = docsOut[k].id

(* C8: the normalizer produces no document from a record whose query text or
   answer text is missing and exactly one from every record that has both, in
   source row order; a document's id is the string of its record's zero-based
   row position in the input, and its content is non-empty (and is that
   record's text). *)
C8_NormalizerFilterAndIds ==
    ppc = "done" =>
        /\ \A i \in 1..Len(csv) :
            Cardinality(DocsWithId(ToString(i - 1))) = IF RowMissing(csv[i]) THEN 0 ELSE 1
        /\ \A k \in 1..Len(docsOut) :
            /\ \E i \in 1..Len(csv) : ToString(i - 1) = docsOut[k].id
            /\ docsOut[k].content # <<>>
            /\ docsOut[k].content[2] = csv[RowOfDoc(k)].QueryText
            /\ docsOut[k].content[4] = csv[RowOfDoc(k)].KccAns
            /\ docsOut[k].content[10] = csv[RowOfDoc(k)].Crop
        /\ \A j, k \in 1..Len(docsOut) : j < k => RowOfDoc(j) < RowOfDoc(k)

C8_Witness ==
    /\ ppc = "done"
    /\ Len(csv) = 3
    /\ RowMissing(csv[1]) /\ ~RowMissing(csv[2]) /\ ~RowMissing(csv[3])
    /\ Len(docsOut) = 2
    /\ docsOut[1].id = "1" /\ docsOut[2].id = "2"

-----------------------------------------------------------------------------
Accepted == ~context.none

\* the context is the candidates' contents, in order, a blank line between
ContextIsAllOf(ctx, res) ==
    LET w == Len(res[1].page_content) IN
    /\ \A i \in 1..Len(res) : Len(res[i].page_content) = w
    /\ Len(ctx) = Len(res) * (w + 1) - 1
    /\ \A i \in 1..Len(res) :
        /\ \A j \in 1..w : ctx[(i - 1) * (w + 1) + j] = res[i].page_content[j]
        /\ i < Len(res) => ctx[i * (w + 1)] = "\n\n"

(* C3: retrieval accepts exactly when the index returned a candidate and the
   first candidate's distance is <= the threshold; then the context is all
   returned candidates' contents joined by a blank line and the distance
   reported is the first candidate's.  Otherwise it rejects, reporting the
   first candidate's distance, or 0 when there was none, and raises nothing. *)
C3_RetrieveOutcome ==
    (qpc = "route" /\ sawIndex = "present") =>
        /\ Accepted <=> (results # <<>> /\ results[1].dist <= threshold)
        /\ Accepted => ContextIsAllOf(context.s, results) /\ score = results[1].dist
        /\ ~Accepted => score = (IF results = <<>> THEN 0 ELSE results[1].dist)

C3_Witness ==
    /\ qpc = "route" /\ sawIndex = "present"
    /\ Accepted
    /\ Len(results) = 3
    /\ results[1].dist = threshold
    /\ results[3].dist > threshold

\* the empty index: rejected at distance 0, the run goes on
C3_EmptyIndexReached ==
    qpc = "route" /\ sawIndex = "present" /\ results = <<>> /\ ~Accepted /\ score = 0

-----------------------------------------------------------------------------
Shows(w) == \E i \in 1..Len(shown) : shown[i].w = w
ShowsText(w, text) == \E i \in 1..Len(shown) : shown[i].w = w /\ shown[i].text = text

LocalAnswer == Shows("answer")
LocalRetrievalFailed == Shows("error_local_model")
FallbackAnswer ==
    \E i \in 1..Len(shown) : shown[i].w = "live_results" /\ shown[i].text # Unavailable
FallbackUnavailable == ShowsText("live_results", Unavailable)

OutcomeCount ==
    (IF LocalAnswer THEN 1 ELSE 0) + (IF LocalRetrievalFailed THEN 1 ELSE 0)
    + (IF FallbackAnswer THEN 1 ELSE 0) + (IF FallbackUnavailable THEN 1 ELSE 0)

QueryEnded == qpc \in {"done", "crashed"}

\* the order of the stages of one run
StagesInOrder ==
    /\ nRetrieve <= 1 /\ nSynth <= 1 /\ nFallback <= 1
    /\ nSynth + nFallback <= 1
    /\ nSynth = 1 => nRetrieve = 1 /\ Truthy(context)
    /\ nFallback = 1 => nRetrieve = 1 /\ ~Truthy(context)

(* C2: in every run of a query, retrieval runs exactly once and completes
   before anything else; the synthesizer runs only after an accept, the
   fallback search only after a reject, never both; and the run ends in
   exactly one of LocalAnswer, LocalRetrievalFailed, FallbackAnswer,
   FallbackUnavailable. *)
C2_OneRetrievalOneOutcome ==
    /\ StagesInOrder
    /\ QueryEnded => nRetrieve = 1 /\ qpc = "done" /\ OutcomeCount = 1

\* a run that does not die in pickle.load ends in exactly one outcome
OneOutcomeUnlessCrashed ==
    /\ StagesInOrder
    /\ qpc = "done" => nRetrieve = 1 /\ OutcomeCount = 1

(* C4: when retrieval accepted and the generator could not be run or exited
   with a non-success status, the run ends as LocalRetrievalFailed with the
   accepted context and the best distance shown, never with an answer, and
   the fallback search is not run. *)
C4_GenerationFailureSurfaced ==
    (qpc = "done" /\ nSynth = 1 /\ (genOut.kind = "oserror" \/ genOut.returncode # 0)) =>
        /\ LocalRetrievalFailed
        /\ ~LocalAnswer
        /\ ShowsText("source_context", context.s)
        /\ \E i \in 1..Len(shown) : shown[i].w = "relevance" /\ shown[i].num = score
        /\ nFallback = 0

(* C5: a run that finds no persisted index fails with the index-not-found
   guidance: it is not reported as a rejected retrieval and does not run the
   fallback search. *)
C5_MissingIndexIsAnError ==
    sawIndex = "missing" =>
        /\ ~Shows("warning_no_context")
        /\ nFallback = 0
        /\ qpc \notin {"fallback", "searching"}

CompleteArtifacts ==
    {Pickle(Documents(store.docs)) : store \in {st \in DocStores : st.exists}}

(* C9: whatever a rebuild is doing, a run that loads the persisted index
   reads a complete artifact (the old one or the new one), never a truncated
   or half-written one. *)
C9_LoadsCompleteIndex ==
    (qpc \in {"route", "crashed"} /\ sawIndex = "present") => loaded \in CompleteArtifacts

====
